---------------------------- MODULE Spec2Model ----------------------------
(***************************************************************************)
(* Model of src/intg.py: a Streamlit script that parses a function text,   *)
(* builds a partition of [a, b], computes Riemann-sum heights, areas, the  *)
(* cumulative sum and the total, draws the bars and fills the iteration    *)
(* table. Every widget interaction re-runs the script from the top.        *)
(*                                                                         *)
(* Numbers: a float is modelled as an exact rational <<p, q>> in lowest    *)
(* terms with q > 0, or as one of the IEEE non-finite values, written with *)
(* q = 0: <<1, 0>> = +inf, <<-1, 0>> = -inf, <<0, 0>> = nan. Rounding of   *)
(* finite floats and the sign of zero are not modelled.                    *)
(*                                                                         *)
(* Values: what numpy hands back is either an array or a scalar; both are  *)
(* records [shape, v] with v the sequence of entries (one entry for a      *)
(* scalar). shape = "none" is a name the script has not assigned yet.      *)
(***************************************************************************)
EXTENDS Integers, Sequences, FiniteSets, TLC

(* ------------------------------ bounds -------------------------------- *)

\* The slider positions explored are 1..MaxN and the default.
MaxN == 5

\* The limits a and b explored are -MaxLimit..MaxLimit and the defaults.
MaxLimit == 1

(* ------------------------- program constants -------------------------- *)

SliderMin == 1

SliderMax == 500

DefaultN == 10

DefaultA == 0

DefaultB == 5

Decimals == 4

TitleDecimals == 4

Methods == {"Left", "Right", "Midpoint", "Trapezoid"}

(* --------------------------- float arithmetic ------------------------- *)

Abs(i) == IF i < 0 THEN -i ELSE i

Sign(i) == IF i < 0 THEN -1 ELSE IF i > 0 THEN 1 ELSE 0

RECURSIVE Gcd(_, _)
Gcd(i, j) == IF j = 0 THEN i ELSE Gcd(j, i % j)

\* p/q in lowest terms with a positive denominator (q # 0).
Norm(p, q) ==
    LET g == Gcd(Abs(p), Abs(q))
        s == IF q < 0 THEN -1 ELSE 1
    IN  <<s * (p \div g), s * (q \div g)>>

Rat(i) == <<i, 1>>

NaN == <<0, 0>>

Inf(s) == <<s, 0>>

IsFinite(x) == x[2] # 0

IsNaN(x) == x = NaN

IsInf(x) == x[2] = 0 /\ x[1] # 0

\* IEEE addition.
Add(x, y) ==
    IF IsNaN(x) \/ IsNaN(y) THEN NaN
    ELSE IF IsInf(x) /\ IsInf(y) THEN (IF x = y THEN x ELSE NaN)
    ELSE IF IsInf(x) THEN x
    ELSE IF IsInf(y) THEN y
    ELSE Norm(x[1] * y[2] + y[1] * x[2], x[2] * y[2])

Neg(x) == <<-x[1], x[2]>>

Sub(x, y) == Add(x, Neg(y))

\* IEEE multiplication: inf * 0 is nan.
Mul(x, y) ==
    IF IsNaN(x) \/ IsNaN(y) THEN NaN
    ELSE IF IsInf(x) \/ IsInf(y)
         THEN (IF x[1] = 0 \/ y[1] = 0 THEN NaN ELSE Inf(Sign(x[1]) * Sign(y[1])))
    ELSE Norm(x[1] * y[1], x[2] * y[2])

\* numpy true division: x/0 is inf (nan for 0/0), with a warning, no exception.
Div(x, y) ==
    IF IsNaN(x) \/ IsNaN(y) THEN NaN
    ELSE IF IsInf(x) THEN (IF IsInf(y) THEN NaN
                           ELSE Inf(x[1] * (IF y[1] < 0 THEN -1 ELSE 1)))
    ELSE IF IsInf(y) THEN Rat(0)
    ELSE IF y[1] = 0 THEN (IF x[1] = 0 THEN NaN ELSE Inf(Sign(x[1])))
    ELSE Norm(x[1] * y[2], x[2] * y[1])

Less(x, y) == IsFinite(x) /\ IsFinite(y) /\ x[1] * y[2] < y[1] * x[2]

RECURSIVE Pow10(_)
Pow10(k) == IF k = 0 THEN 1 ELSE 10 * Pow10(k - 1)

\* Nearest integer to p/q (q > 0), ties to the even one, as numpy's rint.
RoundHalfEven(p, q) ==
    LET fl == p \div q
        r  == p % q
    IN  IF 2 * r < q THEN fl
        ELSE IF 2 * r > q THEN fl + 1
        ELSE IF fl % 2 = 0 THEN fl ELSE fl + 1

\* np.round(x, d): scale by 10^d, round to an integer, scale back.
Round(x, d) ==
    IF ~IsFinite(x) THEN x
    ELSE LET whole == x[1] \div x[2]
             frac  == x[1] % x[2]
         IN  Norm(whole * Pow10(d) + RoundHalfEven(frac * Pow10(d), x[2]), Pow10(d))

\* np.floor of a float; a non-finite value is returned as it is.
Floor(x) == IF ~IsFinite(x) THEN x ELSE Rat(x[1] \div x[2])

(* ------------------------------ values -------------------------------- *)

None == [shape |-> "none", v |-> <<>>]

Arr(s) == [shape |-> "array", v |-> s]

Scalar(x) == [shape |-> "scalar", v |-> <<x>>]

IsSet(val) == val.shape # "none"

\* Entry i (1-based) of a value as numpy broadcasting reads it.
At(val, i) == IF val.shape = "scalar" THEN val.v[1] ELSE val.v[i]

\* Binary elementwise operation with scalar broadcasting.
Len2(x, y) == IF x.shape = "array" THEN Len(x.v) ELSE Len(y.v)

VAdd(x, y) ==
    IF x.shape = "scalar" /\ y.shape = "scalar"
    THEN Scalar(Add(x.v[1], y.v[1]))
    ELSE Arr([i \in 1..Len2(x, y) |-> Add(At(x, i), At(y, i))])

VMul(x, y) ==
    IF x.shape = "scalar" /\ y.shape = "scalar"
    THEN Scalar(Mul(x.v[1], y.v[1]))
    ELSE Arr([i \in 1..Len2(x, y) |-> Mul(At(x, i), At(y, i))])

VDiv(x, y) ==
    IF x.shape = "scalar" /\ y.shape = "scalar"
    THEN Scalar(Div(x.v[1], y.v[1]))
    ELSE Arr([i \in 1..Len2(x, y) |-> Div(At(x, i), At(y, i))])

\* x[:-1] and x[1:] of an array.
AllButLast(x) == Arr(SubSeq(x.v, 1, Len(x.v) - 1))

AllButFirst(x) == Arr(SubSeq(x.v, 2, Len(x.v)))

RECURSIVE SumTo(_, _)
SumTo(s, k) == IF k = 0 THEN Rat(0) ELSE Add(SumTo(s, k - 1), s[k])

\* A cumulative sum that skips non-finite entries, as np.nancumsum would.
CumsumSkipNonFinite(x) ==
    Arr([i \in 1..Len(x.v) |->
           SumTo([k \in 1..Len(x.v) |-> IF IsFinite(x.v[k]) THEN x.v[k] ELSE Rat(0)], i)])

\* np.cumsum flattens its argument: a scalar gives a one-entry array.
Cumsum(x) == Arr([i \in 1..Len(x.v) |-> SumTo(x.v, i)])

\* x[-1] of an array.
Last(x) == Scalar(x.v[Len(x.v)])

\* np.linspace with endpoint=False: the step is (stop - start)/num and stop
\* is not an entry.
LinspaceExclusive(start, stop, num) ==
    Arr([k \in 1..num |->
           Add(Mul(Rat(k - 1), Div(Sub(stop, start), Rat(num))), start)])

\* np.linspace(start, stop, num): with div = num - 1 > 0 the step is
\* (stop - start)/div, entry i is i*step + start, and the last entry is set
\* to stop; with div = 0 the single entry is 0*(stop - start) + start.
Linspace(start, stop, num) ==
    LET div   == num - 1
        delta == Sub(stop, start)
        step  == Div(delta, Rat(div))
    IN  Arr([k \in 1..num |->
               IF div > 0
               THEN (IF k = num THEN stop ELSE Add(Mul(Rat(k - 1), step), start))
               ELSE Add(Mul(Rat(k - 1), delta), start)])

\* The width with the limits added instead of subtracted.
StepWidthSum(lo, hi, cnt) == Div(Add(hi, lo), Rat(cnt))

\* dx = (b - a) / n on Python floats; n = 0 raises ZeroDivisionError, which
\* the caller handles before using this.
StepWidth(lo, hi, cnt) == Div(Sub(hi, lo), Rat(cnt))

(* ---------------------------- expressions ----------------------------- *)

\* The function texts explored.
FuncTexts == {"x**2", "x", "1/floor(x)", "5", "y+1", "x+", "sin()"}

\* sp.sympify(text): the expression, or the exception raised. "x+" is not
\* an expression (SympifyError), "sin()" calls sin without its argument
\* (TypeError); "y+1" is a sound expression in the symbol y.
Sympify(text) ==
    CASE text = "x**2"  -> [raised |-> "none", expr |-> "pow2"]
      [] text = "x"     -> [raised |-> "none", expr |-> "id"]
      [] text = "1/floor(x)" -> [raised |-> "none", expr |-> "recipfloor"]
      [] text = "5"     -> [raised |-> "none", expr |-> "const5"]
      [] text = "y+1"   -> [raised |-> "none", expr |-> "yplus1"]
      [] text = "x+"    -> [raised |-> "SympifyError", expr |-> "none"]
      [] text = "sin()" -> [raised |-> "TypeError", expr |-> "none"]

\* A fallback that returns the number 0 whatever the argument: lambda x: 0.
ZerosScalar(X) == Scalar(Rat(0))

\* The fallback of the except branch: lambda x: np.zeros_like(x).
ZerosLike(X) == Arr([i \in 1..Len(X.v) |-> Rat(0)])

\* The value of the expression at one abscissa.
ValueAt(fn, x) ==
    CASE fn = "pow2"   -> Mul(x, x)
      [] fn = "id"     -> x
      [] fn = "recipfloor" -> Div(Rat(1), Floor(x))
      [] fn = "const5" -> Rat(5)
      [] fn = "zeros"  -> Rat(0)

\* Calling the function sp.lambdify(x, expr, modules=["numpy"]) made, on an
\* array: the generated code is "return <expr>", so an expression in x is
\* evaluated elementwise, an expression without x returns its Python
\* number whatever the argument, and a symbol other than x is a global
\* name the call does not find.
Call(fn, X) ==
    CASE fn = "zeros"  -> [raised |-> "none", val |-> ZerosLike(X)]
      [] fn = "const5" -> [raised |-> "none", val |-> Scalar(Rat(5))]
      [] fn = "yplus1" -> [raised |-> "NameError", val |-> None]
      [] OTHER         -> [raised |-> "none",
                           val |-> Arr([i \in 1..Len(X.v) |-> ValueAt(fn, X.v[i])])]

(* ------------------------------- state -------------------------------- *)

VARIABLES
    func_str,        \* text_input "Enter the function f(x):"
    a,               \* number_input "Lower limit (a):"
    b,               \* number_input "Upper limit (b):"
    n,               \* slider "Number of iterations/subdivisions:"
    method,          \* selectbox "Integration Method:"
    show_table,      \* checkbox "Display Iteration Table"
    pc,              \* the section of the script the run is at
    raised,          \* the uncaught exception that ended the run, or "none"
    f_lambdified,    \* the numeric function in use, or "unset"
    error_shown,     \* st.error was called
    latex_shown,     \* the expression st.latex typeset, or "none"
    x_vals, dx, heights, areas, cumulative, total_integral,
    bars,            \* the rectangles ax.bar drew
    title_total,     \* the total printed in the plot's title
    table_data       \* the rows of the iteration table

inputs == <<func_str, a, b, n, method, show_table>>

run == <<pc, raised, f_lambdified, error_shown, latex_shown, x_vals, dx, heights,
         areas, cumulative, total_integral, bars, title_total, table_data>>

vars == <<inputs, run>>

LimitValues == (-MaxLimit .. MaxLimit) \cup {DefaultA, DefaultB}

NValues == {k \in (1 .. MaxN) \cup {DefaultN} : SliderMin <= k /\ k <= SliderMax}

\* A run of the script starts with nothing assigned.
StartRun ==
    /\ pc' = "parse"
    /\ raised' = "none"
    /\ f_lambdified' = "unset"
    /\ error_shown' = FALSE
    /\ latex_shown' = "none"
    /\ x_vals' = None
    /\ dx' = None
    /\ heights' = None
    /\ areas' = None
    /\ cumulative' = None
    /\ total_integral' = None
    /\ bars' = <<>>
    /\ title_total' = None
    /\ table_data' = <<>>

Init ==
    /\ func_str = "x**2"
    /\ a = DefaultA
    /\ b = DefaultB
    /\ n = DefaultN
    /\ method = "Left"
    /\ show_table = TRUE
    /\ pc = "parse"
    /\ raised = "none"
    /\ f_lambdified = "unset"
    /\ error_shown = FALSE
    /\ latex_shown = "none"
    /\ x_vals = None
    /\ dx = None
    /\ heights = None
    /\ areas = None
    /\ cumulative = None
    /\ total_integral = None
    /\ bars = <<>>
    /\ title_total = None
    /\ table_data = <<>>

(* ------------------------------ widgets ------------------------------- *)
\* Changing a widget's value stops the run in progress and re-runs the script.

SetFuncStr(t) ==
    /\ t # func_str
    /\ func_str' = t
    /\ UNCHANGED <<a, b, n, method, show_table>>
    /\ StartRun

SetA(v) ==
    /\ v # a
    /\ a' = v
    /\ UNCHANGED <<func_str, b, n, method, show_table>>
    /\ StartRun

SetB(v) ==
    /\ v # b
    /\ b' = v
    /\ UNCHANGED <<func_str, a, n, method, show_table>>
    /\ StartRun

SetN(k) ==
    /\ k # n
    /\ n' = k
    /\ UNCHANGED <<func_str, a, b, method, show_table>>
    /\ StartRun

SetMethod(m) ==
    /\ m # method
    /\ method' = m
    /\ UNCHANGED <<func_str, a, b, n, show_table>>
    /\ StartRun

SetShowTable(c) ==
    /\ c # show_table
    /\ show_table' = c
    /\ UNCHANGED <<func_str, a, b, n, method>>
    /\ StartRun

(* ------------------------------ the script ---------------------------- *)

\* FUNCTION PARSING AND NORMALIZATION: the try block and its except branch.
Parse ==
    /\ pc = "parse" /\ raised = "none"
    /\ LET r == Sympify(func_str)
       IN  IF r.raised \in {"SympifyError", "TypeError"}
           THEN /\ error_shown' = TRUE
                /\ f_lambdified' = "zeros"
                /\ latex_shown' = "none"
           ELSE /\ error_shown' = FALSE
                /\ f_lambdified' = r.expr
                /\ latex_shown' = r.expr
    /\ pc' = "calc"
    /\ UNCHANGED <<inputs, raised, x_vals, dx, heights, areas, cumulative,
                   total_integral, bars, title_total, table_data>>

\* A dispatch that samples the left endpoint whatever the rule.
HeightsAllLeft(fn, m, X) == Call(fn, AllButLast(X))

\* The rule dispatch: one call of the function for Left, Right and Midpoint,
\* two for Trapezoid.
Heights(fn, m, X) ==
    CASE m = "Left"      -> Call(fn, AllButLast(X))
      [] m = "Right"     -> Call(fn, AllButFirst(X))
      [] m = "Midpoint"  ->
            Call(fn, VDiv(VAdd(AllButLast(X), AllButFirst(X)), Scalar(Rat(2))))
      [] m = "Trapezoid" ->
            LET l == Call(fn, AllButLast(X))
                r == Call(fn, AllButFirst(X))
            IN  IF l.raised # "none" THEN l
                ELSE IF r.raised # "none" THEN r
                ELSE [raised |-> "none",
                      val |-> VDiv(VAdd(l.val, r.val), Scalar(Rat(2)))]

\* CALCULATIONS.
Calculate ==
    /\ pc = "calc" /\ raised = "none"
    /\ x_vals' = Linspace(Rat(a), Rat(b), n + 1)
    /\ IF n = 0
       THEN /\ raised' = "ZeroDivisionError"
            /\ UNCHANGED <<pc, dx, heights, areas, cumulative, total_integral>>
       ELSE LET w == StepWidth(Rat(a), Rat(b), n)
                h == Heights(f_lambdified, method, x_vals')
            IN  /\ dx' = Scalar(w)
                /\ IF h.raised # "none"
                   THEN /\ raised' = h.raised
                        /\ UNCHANGED <<pc, heights, areas, cumulative, total_integral>>
                   ELSE /\ heights' = h.val
                        /\ areas' = VMul(h.val, Scalar(w))
                        /\ cumulative' = Cumsum(areas')
                        /\ total_integral' = Last(cumulative')
                        /\ pc' = "plot"
                        /\ UNCHANGED raised
    /\ UNCHANGED <<inputs, f_lambdified, error_shown, latex_shown, bars,
                   title_total, table_data>>

\* The left edge of bar i (1-based), as the loop computes it.
BarEdge(m, X, w, i) ==
    CASE m = "Left"      -> X.v[i]
      [] m = "Right"     -> Sub(X.v[i + 1], w)
      [] m = "Midpoint"  ->
            Sub(Div(Add(X.v[i], X.v[i + 1]), Rat(2)), Div(w, Rat(2)))
      [] m = "Trapezoid" -> X.v[i]

\* GRAPH AREA WITH LOADER. ax.plot draws f over x_plot = np.linspace(a, b,
\* 500) and raises ValueError unless f returns one ordinate per abscissa;
\* only the shape of the result matters, so the curve is evaluated at the
\* two ends of x_plot. Indexing a scalar heights raises TypeError.
Plot ==
    /\ pc = "plot" /\ raised = "none"
    /\ LET curve == Call(f_lambdified, Arr(<<Rat(a), Rat(b)>>))
       IN  IF curve.raised # "none"
           THEN /\ raised' = curve.raised
                /\ UNCHANGED <<pc, bars, title_total>>
           ELSE IF curve.val.shape # "array"
           THEN /\ raised' = "ValueError"
                /\ UNCHANGED <<pc, bars, title_total>>
           ELSE IF heights.shape # "array"
           THEN /\ raised' = "TypeError"
                /\ UNCHANGED <<pc, bars, title_total>>
           ELSE /\ bars' = [i \in 1..n |->
                              [x      |-> BarEdge(method, x_vals, dx.v[1], i),
                               height |-> heights.v[i],
                               width  |-> dx.v[1]]]
                /\ title_total' = Scalar(Round(total_integral.v[1], TitleDecimals))
                /\ pc' = "table"
                /\ UNCHANGED raised
    /\ UNCHANGED <<inputs, f_lambdified, error_shown, latex_shown, x_vals, dx,
                   heights, areas, cumulative, total_integral, table_data>>

\* ITERATION TABLE: the columns of the DataFrame, row by row.
TableRows ==
    [i \in 1..n |->
        [iteration  |-> i,
         position   |-> Round(AllButLast(x_vals).v[i], Decimals),
         height     |-> Round(heights.v[i], Decimals),
         area       |-> Round(areas.v[i], Decimals),
         cumulative |-> Round(cumulative.v[i], Decimals)]]

Table ==
    /\ pc = "table" /\ raised = "none"
    /\ table_data' = IF show_table THEN TableRows ELSE <<>>
    /\ pc' = "explain"
    /\ UNCHANGED <<inputs, raised, f_lambdified, error_shown, latex_shown, x_vals,
                   dx, heights, areas, cumulative, total_integral, bars, title_total>>

\* DETAILED EXPLANATION and FOOTER: static text, then the run ends.
Explain ==
    /\ pc = "explain" /\ raised = "none"
    /\ pc' = "done"
    /\ UNCHANGED <<inputs, raised, f_lambdified, error_shown, latex_shown, x_vals,
                   dx, heights, areas, cumulative, total_integral, bars,
                   title_total, table_data>>

Next ==
    \/ \E t \in FuncTexts : SetFuncStr(t)
    \/ \E v \in LimitValues : SetA(v)
    \/ \E v \in LimitValues : SetB(v)
    \/ \E k \in NValues : SetN(k)
    \/ \E m \in Methods : SetMethod(m)
    \/ \E c \in BOOLEAN : SetShowTable(c)
    \/ Parse
    \/ Calculate
    \/ Plot
    \/ Table
    \/ Explain

Spec == Init /\ [][Next]_vars

(* ------------------------------ properties --------------------------- *)

\* Subinterval i (1-based) runs from x_vals[i] to x_vals[i + 1].
LeftEnd(i) == x_vals.v[i]

RightEnd(i) == x_vals.v[i + 1]

MidPoint(i) == Div(Add(LeftEnd(i), RightEnd(i)), Rat(2))

\* The height the rule prescribes for subinterval i.
RuleHeight(fn, m, i) ==
    CASE m = "Left"      -> ValueAt(fn, LeftEnd(i))
      [] m = "Right"     -> ValueAt(fn, RightEnd(i))
      [] m = "Midpoint"  -> ValueAt(fn, MidPoint(i))
      [] m = "Trapezoid" ->
            Div(Add(ValueAt(fn, LeftEnd(i)), ValueAt(fn, RightEnd(i))), Rat(2))

\* The function is not finite at a sample point of subinterval i.
Affected(fn, m, i) ==
    CASE m = "Left"      -> ~IsFinite(ValueAt(fn, LeftEnd(i)))
      [] m = "Right"     -> ~IsFinite(ValueAt(fn, RightEnd(i)))
      [] m = "Midpoint"  -> ~IsFinite(ValueAt(fn, MidPoint(i)))
      [] m = "Trapezoid" -> \/ ~IsFinite(ValueAt(fn, LeftEnd(i)))
                            \/ ~IsFinite(ValueAt(fn, RightEnd(i)))

AllZero(val) == \A i \in 1..Len(val.v) : val.v[i] = Rat(0)

\* C1: once the heights are computed, the height of every subinterval i is
\* f(x_i) for Left, f(x_{i+1}) for Right, f((x_i + x_{i+1})/2) for Midpoint
\* and (f(x_i) + f(x_{i+1}))/2 for Trapezoid, and its area is that height
\* times dx; for x**2 on [0, 5] with n = 5 and Trapezoid the heights are
\* 0.5, 2.5, 6.5, 12.5, 20.5 and the total is 42.5.
C1_RuleHeights ==
    IsSet(heights) =>
        /\ \A i \in 1..n :
              /\ At(heights, i) = RuleHeight(f_lambdified, method, i)
              /\ At(areas, i) = Mul(At(heights, i), dx.v[1])
        /\ (func_str = "x**2" /\ a = 0 /\ b = 5 /\ n = 5 /\ method = "Trapezoid") =>
              /\ heights.v = <<<<1, 2>>, <<5, 2>>, <<13, 2>>, <<25, 2>>, <<41, 2>>>>
              /\ areas.v = heights.v
              /\ total_integral.v[1] = <<85, 2>>

C1_Witness ==
    /\ IsSet(heights)
    /\ func_str = "x**2" /\ a = 0 /\ b = 5 /\ n = 5 /\ method = "Trapezoid"

\* C2: once the heights are computed, heights, areas and the cumulative
\* trace are arrays of exactly n entries (the function returned one value
\* per abscissa).
C2_LengthN ==
    IsSet(heights) =>
        /\ heights.shape = "array" /\ Len(heights.v) = n
        /\ areas.shape = "array" /\ Len(areas.v) = n
        /\ cumulative.shape = "array" /\ Len(cumulative.v) = n

\* C3: the cumulative trace has an entry for every subinterval, its first
\* entry is the first area, each later entry is the entry before it plus
\* the area of its subinterval, and the total is the last of the n entries
\* and equals dx times the sum of the n heights.
C3_PrefixSums ==
    IsSet(cumulative) =>
        /\ Len(cumulative.v) = n
        /\ Len(areas.v) = n
        /\ Len(heights.v) = n
        /\ cumulative.v[1] = areas.v[1]
        /\ \A i \in 2..n : cumulative.v[i] = Add(cumulative.v[i - 1], areas.v[i])
        /\ total_integral.v[1] = cumulative.v[n]
        /\ total_integral.v[1] = Mul(dx.v[1], SumTo(heights.v, n))

\* C4: the partition has n + 1 entries x_i = a + i*dx with dx = (b - a)/n,
\* starts at a, ends at b, and is strictly increasing when a < b, strictly
\* decreasing when b < a and constant when a = b.
C4_Partition ==
    IsSet(dx) =>
        /\ x_vals.shape = "array" /\ Len(x_vals.v) = n + 1
        /\ dx.v[1] = Norm(b - a, n)
        /\ \A i \in 0..n : x_vals.v[i + 1] = Add(Rat(a), Mul(Rat(i), dx.v[1]))
        /\ x_vals.v[1] = Rat(a)
        /\ x_vals.v[n + 1] = Rat(b)
        /\ a < b => \A i \in 1..n : Less(x_vals.v[i], x_vals.v[i + 1])
        /\ b < a => \A i \in 1..n : Less(x_vals.v[i + 1], x_vals.v[i])
        /\ a = b => \A i \in 1..n : x_vals.v[i + 1] = x_vals.v[i]

C4_Witness ==
    /\ IsSet(dx) /\ b < a /\ n = 3 /\ a - b = 1

\* C6: for the text "y+1" the parse step reports an error and substitutes
\* the zero function, and the run goes on without an exception, with every
\* height and area and the total equal to 0.
C6_FreeVariableRejected ==
    (func_str = "y+1" /\ pc # "parse") =>
        /\ error_shown
        /\ f_lambdified = "zeros"
        /\ raised = "none"
        /\ IsSet(heights) =>
              AllZero(heights) /\ AllZero(areas) /\ total_integral.v[1] = Rat(0)

C8_NonFiniteEntries ==
    /\ (f_lambdified = "recipfloor" /\ pc = "calc") => raised = "none"
    /\ IsSet(heights) =>
          /\ \A i \in 1..n :
                /\ Affected(f_lambdified, method, i) <=> ~IsFinite(At(heights, i))
                /\ Affected(f_lambdified, method, i) <=> ~IsFinite(At(areas, i))
                /\ ~Affected(f_lambdified, method, i) =>
                      /\ At(heights, i) = RuleHeight(f_lambdified, method, i)
                      /\ At(areas, i) =
                            Mul(RuleHeight(f_lambdified, method, i), dx.v[1])
          /\ (\E i \in 1..n : Affected(f_lambdified, method, i)) =>
                /\ ~IsFinite(total_integral.v[1])
                /\ IsSet(title_total) => title_total = total_integral

C8_Witness ==
    /\ IsSet(title_total)
    /\ \E i \in 1..n : Affected(f_lambdified, method, i)
    /\ \E i \in 1..n : ~Affected(f_lambdified, method, i)

\* C9 as stated: when a = b, whatever the function, dx is 0, the partition
\* is n + 1 entries equal to a, and every area, every cumulative entry and
\* the total are 0.
C9_DegenerateAnyFunction ==
    (IsSet(heights) /\ a = b) =>
        /\ dx = Scalar(Rat(0))
        /\ Len(x_vals.v) = n + 1
        /\ \A i \in 1..(n + 1) : x_vals.v[i] = Rat(a)
        /\ AllZero(areas)
        /\ AllZero(cumulative)
        /\ total_integral = Scalar(Rat(0))

\* C9 as amended: when a = b and every height is finite, dx is 0, the
\* partition is n + 1 entries equal to a, and every area, every cumulative
\* entry and the total are 0.
C9_DegenerateFiniteHeights ==
    (IsSet(heights) /\ a = b /\ \A i \in 1..Len(heights.v) : IsFinite(heights.v[i])) =>
        /\ dx = Scalar(Rat(0))
        /\ Len(x_vals.v) = n + 1
        /\ \A i \in 1..(n + 1) : x_vals.v[i] = Rat(a)
        /\ AllZero(areas)
        /\ AllZero(cumulative)
        /\ total_integral = Scalar(Rat(0))

C9_Witness ==
    /\ IsSet(heights) /\ a = b /\ a # 0 /\ n = 3 /\ func_str = "x**2"

\* C10: in every row of the iteration table the height column is f at the
\* position the row shows and the area column is that value times dx (each
\* column rounded to the table's four decimals).
C10_TableHeightAtPosition ==
    (pc \in {"explain", "done"} /\ show_table) =>
        \A i \in 1..Len(table_data) :
            /\ table_data[i].position = Round(x_vals.v[i], Decimals)
            /\ table_data[i].height =
                  Round(ValueAt(f_lambdified, x_vals.v[i]), Decimals)
            /\ table_data[i].area =
                  Round(Mul(ValueAt(f_lambdified, x_vals.v[i]), dx.v[1]), Decimals)

=============================================================================
